---- MODULE Spec2Model ----
(***************************************************************************)
(* Byzantine-robust aggregation (src/ai/byzantine_robust_aggregation.py):  *)
(* the aggregator's algorithms (Krum, Bulyan, coordinate-wise median,      *)
(* trimmed mean, Byzantine detector, adaptive dispatcher) as operators,    *)
(* and the coordinator (reputation table, aggregation history) as a state  *)
(* machine.                                                                *)
(*                                                                         *)
(* Representation.                                                         *)
(*  - A participant id is a natural number; the order of the numbers       *)
(*    stands for the lexicographic order of the id strings.                *)
(*  - model_updates (a Python dict, which iterates in insertion order) is  *)
(*    a sequence of records [id, update] with distinct ids.                *)
(*  - An update maps each layer name to a tensor of one element, an        *)
(*    integer.  The updates are corners of a 3 x 4 rectangle, so every     *)
(*    Euclidean distance between two updates is an integer (0, 3, 4 or 5)  *)
(*    and Sqrt below is exact.                                             *)
(*  - Aggregated weights are exact rationals <<numerator, denominator>>    *)
(*    in lowest terms (np.median and np.mean return floats).               *)
(*  - A reputation is kept in tenths: 5 stands for 0.5, 10 for 1.0.  The   *)
(*    rounding error of binary floating point (0.7 + 0.1 is                *)
(*    0.7999999999999999 in the program) is not modelled.                  *)
(*  - robustness_score is kept in hundredths, rounded towards 1.           *)
(*  - computation_time (wall-clock time) is not modelled.                  *)
(*  - AggregationMethod declares BYZANTINE_ROBUST, while the coordinator   *)
(*    and main() name that variant AggregationMethod.ADAPTIVE; the model   *)
(*    reads both as one variant, "byzantine_robust".                       *)
(*                                                                         *)
(* Specifications.                                                         *)
(*  - SpecAgg: one call of an aggregator method on any round.              *)
(*  - SpecTrim: one trimmed-mean call, over all four corners.              *)
(*  - SpecDetect: one call of the detector alone.                          *)
(*  - Spec: the coordinator; a freely chosen round, then resubmissions.    *)
(*  - SpecRounds: the coordinator; every round freely chosen.              *)
(*  - SpecThreads: rounds conducted by threads on one coordinator.         *)
(*  - SpecDistance: one call of _calculate_distance on two updates whose   *)
(*    layers may differ.                                                   *)
(*  - SpecSnapshot: rounds of 3 or 4 participants and a caller holding the *)
(*    mapping get_participant_reputation returned.                         *)
(*  - SpecTable: rounds of 3 or 4 participants with any method.            *)
(***************************************************************************)
EXTENDS Integers, Sequences, FiniteSets, TLC

VARIABLES
    max_byzantine_ratio,      \* ByzantineRobustAggregator.max_byzantine_ratio, in tenths
    participant_reputation,   \* ByzantineRobustFederatedLearning.participant_reputation
    aggregation_history,      \* ByzantineRobustFederatedLearning.aggregation_history
    model_updates,            \* the model_updates argument of the latest call
    call,                     \* the other arguments of the latest call
    outcome,                  \* what the latest call returned or raised
    threads,                  \* the rounds that threads of the caller have in flight
    returned_reputation       \* the mapping a get_participant_reputation call handed out

vars == <<max_byzantine_ratio, participant_reputation, aggregation_history, model_updates, call, outcome, threads,
         returned_reputation>>

(***************************************************************************)
(* Bounds of the model.                                                    *)
(***************************************************************************)
NumParticipants == 5      \* participant ids are 1..NumParticipants
MaxRounds == 1            \* Spec: rounds whose input the caller chooses freely
MaxResubmit == 6          \* Spec: further rounds, each resubmitting the latest round
MaxFreeRounds == 2        \* SpecRounds: rounds, all chosen freely
MaxF == 2                 \* largest explicit adversary count f passed by a caller
MaxScaled == 2            \* most participants of a coordinator round that submit Scaled
NumThreads == 2           \* SpecThreads: threads that conduct one round each
MaxThreadRound == 3       \* SpecThreads: most participants of a round
MaxSnapshotRounds == 2    \* SpecSnapshot: most completed rounds
MaxTableRounds == 3       \* SpecTable: most completed rounds

(***************************************************************************)
(* Program constants.                                                      *)
(***************************************************************************)
min_participants == 3     \* ByzantineRobustAggregator.__init__ default
DefaultRatio == 3         \* max_byzantine_ratio = 0.3 by default, in tenths
SmallRatio == 1           \* max_byzantine_ratio = 0.1, a value a caller may configure
TrimNum == 1              \* default trim_ratio = 0.1 = TrimNum / TrimDen
TrimDen == 10
Tenths == 10              \* reputation 1.0 in tenths
FirstUsed == 5            \* reputation 0.5 given to a new participant that was used
FirstExcluded == 3        \* reputation 0.3 given to a new participant that was excluded
Hundredths == 100         \* robustness_score 1.0 in hundredths
MedianScore == 80         \* robustness_score 0.8 of coordinate_wise_median
TrimmedScore == 70        \* robustness_score 0.7 of trimmed_mean_aggregation
EpsPercentile == 75       \* np.percentile(distances, 75)
RepPercentile == 20       \* np.percentile(reputations, 20)
min_samples == 2          \* DBSCAN(min_samples=2)

MainParticipants == 10    \* main(): participants of the example round
MainNormal == 7           \* main(): participants with normal updates

None == -1                \* Python's None for an omitted f

ParticipantIds == 1..NumParticipants
Layers == {"layer1", "layer2"}

\* the updates participants submit: three corners of the rectangle
Honest == [layer1 |-> 0, layer2 |-> 0]
Shifted == [layer1 |-> 3, layer2 |-> 0]
Scaled == [layer1 |-> 3, layer2 |-> 4]
Updates == {Honest, Shifted, Scaled}
\* the fourth corner: smaller than Shifted in layer1, larger in norm
Lifted == [layer1 |-> 0, layer2 |-> 4]

(***************************************************************************)
(* Arithmetic helpers.                                                     *)
(***************************************************************************)
Min(a, b) == IF a <= b THEN a ELSE b
Max(a, b) == IF a >= b THEN a ELSE b
Abs(a) == IF a >= 0 THEN a ELSE -a

RECURSIVE GCD(_, _)
GCD(a, b) == IF b = 0 THEN a ELSE GCD(b, a % b)

\* the rational num/den (den > 0) in lowest terms
Rat(num, den) ==
    LET g == GCD(Abs(num), den)
    IN  <<num \div g, den \div g>>

RECURSIVE SeqSum(_)
SeqSum(s) == IF s = <<>> THEN 0 ELSE Head(s) + SeqSum(Tail(s))

Range(s) == {s[i] : i \in 1..Len(s)}

\* np.sqrt on the values the model produces (perfect squares); floor otherwise
Sqrt(x) == CHOOSE r \in 0..x : r * r <= x /\ (r + 1) * (r + 1) > x

\* list.sort() / sorted() on numbers
Sorted(s) == SortSeq(s, LAMBDA a, b : a < b)

\* Python's s[:k]
Prefix(s, k) ==
    IF k >= 0 THEN SubSeq(s, 1, Min(k, Len(s)))
    ELSE SubSeq(s, 1, Max(0, Len(s) + k))

\* all orders in which the elements of a finite set can be listed
RECURSIVE Orders(_)
Orders(S) ==
    IF S = {} THEN {<<>>}
    ELSE UNION {{<<x>> \o t : t \in Orders(S \ {x})} : x \in S}

(***************************************************************************)
(* Dict helpers on model_updates.                                          *)
(***************************************************************************)
Keys(mu) == [i \in 1..Len(mu) |-> mu[i].id]
KeySet(mu) == {mu[i].id : i \in 1..Len(mu)}
Get(mu, p) == (CHOOSE i \in 1..Len(mu) : mu[i].id = p)
Item(mu, p) == mu[Get(mu, p)].update
\* {p: mu[p] for p in mu.keys() if p not in S}  and  del mu[p]
Without(mu, S) == SelectSeq(mu, LAMBDA e : e.id \notin S)

\* int(n * max_byzantine_ratio)
DefaultF(n) == (n * max_byzantine_ratio) \div Tenths

(***************************************************************************)
(* Results and failures.                                                   *)
(***************************************************************************)
AggregationResult(weights, method, used, excluded, score) ==
    [aggregated_weights |-> weights, method_used |-> method,
     participants_used |-> used, participants_excluded |-> excluded,
     robustness_score |-> score]

NoResult == AggregationResult(<<>>, "none", <<>>, <<>>, 0)

\* the call returned r
Returned(r) == [kind |-> "returned", error |-> "", need |-> 0, result |-> r]

\* the call raised: error names the exception, need the participant count
\* its message names (0 when it names none)
Raised(e, n) == [kind |-> "raised", error |-> e, need |-> n, result |-> NoResult]

NotCalled == [kind |-> "none", error |-> "", need |-> 0, result |-> NoResult]

\* _calculate_distance returned d
Distance(d) == [kind |-> "distance", value |-> d]

\* _detect_byzantine_participants returned the list ids (kept in the
\* participants_excluded field)
Flagged(ids) ==
    [kind |-> "flagged", error |-> "", need |-> 0,
     result |-> AggregationResult(<<>>, "none", <<>>, ids, 0)]

(***************************************************************************)
(* _calculate_distance                                                     *)
(***************************************************************************)
RECURSIVE SumOver(_, _)
SumOver(S, f) ==
    IF S = {} THEN 0
    ELSE LET x == CHOOSE y \in S : TRUE
         IN  f[x] + SumOver(S \ {x}, f)

\* total_distance that takes a layer missing from model2 as zeros
total_distance_of_all_layers(model1, model2) ==
    LET sq == [l \in DOMAIN model1 |->
                  IF l \in DOMAIN model2
                  THEN (model1[l] - model2[l]) * (model1[l] - model2[l])
                  ELSE model1[l] * model1[l]]
    IN  SumOver(DOMAIN model1, sq)

total_distance(model1, model2) ==
    LET shared == {l \in DOMAIN model1 : l \in DOMAIN model2}
        sq == [l \in shared |-> (model1[l] - model2[l]) * (model1[l] - model2[l])]
    IN  SumOver(shared, sq)

_calculate_distance(model1, model2) == Sqrt(total_distance(model1, model2))

(***************************************************************************)
(* _calculate_robustness_score, in hundredths                              *)
(***************************************************************************)
SeqMax(s) == CHOOSE x \in Range(s) : \A y \in Range(s) : y <= x
SeqMin(s) == CHOOSE x \in Range(s) : \A y \in Range(s) : x <= y

\* std/mean of the values of s is sqrt(n * sum(x^2) - sum(x)^2) / sum(x)
CoefficientOfVariation(s) ==
    LET n == Len(s)
        S == SeqSum(s)
        V == n * SeqSum([i \in 1..n |-> s[i] * s[i]]) - S * S
    IN  IF Hundredths * Hundredths * V >= (Hundredths * S) * (Hundredths * S)
        THEN Hundredths
        ELSE CHOOSE c \in 0..(Hundredths - 1) :
                /\ (c * S) * (c * S) <= Hundredths * Hundredths * V
                /\ ((c + 1) * S) * ((c + 1) * S) > Hundredths * Hundredths * V

\* _calculate_robustness_score without the test max_score == min_score
_calculate_robustness_score_untested(scores) ==
    IF scores = <<>> THEN 0
    ELSE IF SeqSum(scores) = 0 THEN 0
    ELSE Max(0, Hundredths - CoefficientOfVariation(scores))

\* scores: the values of the scores dict, in insertion order
_calculate_robustness_score(scores) ==
    IF scores = <<>> THEN 0
    ELSE IF SeqMax(scores) = SeqMin(scores) THEN Hundredths
    ELSE IF SeqSum(scores) = 0 THEN 0
    ELSE Max(0, Hundredths - CoefficientOfVariation(scores))

(***************************************************************************)
(* krum_aggregation                                                        *)
(***************************************************************************)
\* KrumDistances without the `if i != j` test
KrumDistancesWithSelf(mu, i) ==
    [j \in 1..Len(mu) |-> _calculate_distance(mu[i].update, mu[j].update)]

\* the distances list of participant number i: to every j # i, in order of j
KrumDistances(mu, i) ==
    LET others == SelectSeq([j \in 1..Len(mu) |-> j], LAMBDA j : j # i)
    IN  [k \in 1..Len(others) |-> _calculate_distance(mu[i].update, mu[others[k]].update)]

krum_score(mu, i, f) == SeqSum(Prefix(Sorted(KrumDistances(mu, i)), Len(mu) - f - 2))

KrumScores(mu, f) == [i \in 1..Len(mu) |-> krum_score(mu, i, f)]

\* min(scores, key=scores.get): the first key, in insertion order, whose score is minimal
KrumSelected(mu, f) ==
    LET scores == KrumScores(mu, f)
    IN  CHOOSE i \in 1..Len(mu) :
            /\ \A j \in 1..Len(mu) : scores[i] <= scores[j]
            /\ \A j \in 1..(i - 1) : scores[j] > scores[i]

AsWeights(update) == [l \in DOMAIN update |-> Rat(update[l], 1)]

\* the participant count krum_aggregation requires
KrumRequired(f) == 2 * f + 3

krum_aggregation(mu, f_arg) ==
    LET f == IF f_arg = None THEN DefaultF(Len(mu)) ELSE f_arg
    IN  IF Len(mu) < KrumRequired(f)
        THEN Raised("NotEnoughParticipants", KrumRequired(f))
        ELSE LET sel == KrumSelected(mu, f)
                 selected_participant == mu[sel].id
             IN  Returned(AggregationResult(
                     AsWeights(mu[sel].update),
                     "krum",
                     <<selected_participant>>,
                     SelectSeq(Keys(mu), LAMBDA p : p # selected_participant),
                     _calculate_robustness_score(KrumScores(mu, f))))

(***************************************************************************)
(* _coordinate_wise_median, coordinate_wise_median                         *)
(***************************************************************************)
\* Median that adds the two middle values of an even count without halving
MedianEvenSum(values) ==
    LET s == Sorted(values)
        n == Len(s)
    IN  IF n % 2 = 1 THEN Rat(s[(n + 1) \div 2], 1)
        ELSE Rat(s[n \div 2] + s[n \div 2 + 1], 1)

\* Median that takes the upper middle value of an even count
MedianUpper(values) ==
    LET s == Sorted(values)
        n == Len(s)
    IN  Rat(s[n \div 2 + 1], 1)

\* np.median of a non-empty list of numbers
Median(values) ==
    LET s == Sorted(values)
        n == Len(s)
    IN  IF n % 2 = 1 THEN Rat(s[(n + 1) \div 2], 1)
        ELSE Rat(s[n \div 2] + s[n \div 2 + 1], 2)

\* mu is not empty; the layer names are those of the first participant
_coordinate_wise_median(mu) ==
    [l \in DOMAIN mu[1].update |-> Median([i \in 1..Len(mu) |-> mu[i].update[l]])]

coordinate_wise_median(mu) ==
    IF Len(mu) < min_participants
    THEN Raised("NotEnoughParticipants", min_participants)
    ELSE Returned(AggregationResult(
             _coordinate_wise_median(mu), "coordinate_median", Keys(mu), <<>>, MedianScore))

(***************************************************************************)
(* bulyan_aggregation                                                      *)
(***************************************************************************)
\* the selection loop: iterations are the passes of range(n - 2 * f) still to run
RECURSIVE BulyanSelect(_, _, _, _)
BulyanSelect(remaining_updates, selected_participants, iterations, krum_f) ==
    IF iterations <= 0 THEN selected_participants
    ELSE IF Len(remaining_updates) < KrumRequired(krum_f) THEN selected_participants
    ELSE LET krum_result == krum_aggregation(remaining_updates, krum_f).result
             selected_participant == krum_result.participants_used[1]
         IN  BulyanSelect(Without(remaining_updates, {selected_participant}),
                          Append(selected_participants, selected_participant),
                          iterations - 1, krum_f)

\* BulyanRequired with Krum's formula
BulyanRequiredAsKrum(f) == 2 * f + 3

\* the participant count bulyan_aggregation requires
BulyanRequired(f) == 4 * f + 3

bulyan_aggregation(mu, f_arg) ==
    LET f == IF f_arg = None THEN DefaultF(Len(mu)) ELSE f_arg
        n == Len(mu)
        krum_f == n - 2 * f - 2
        selected_participants == BulyanSelect(mu, <<>>, n - 2 * f, krum_f)
        selected_updates ==
            [k \in 1..Len(selected_participants) |->
                [id |-> selected_participants[k],
                 update |-> Item(mu, selected_participants[k])]]
    IN  IF n < BulyanRequired(f)
        THEN Raised("NotEnoughParticipants", BulyanRequired(f))
        ELSE IF selected_updates = <<>>
        THEN Raised("IndexError", 0)      \* participants[0] of an empty list
        ELSE Returned(AggregationResult(
                 _coordinate_wise_median(selected_updates),
                 "bulyan",
                 selected_participants,
                 SelectSeq(Keys(mu), LAMBDA p : p \notin Range(selected_participants)),
                 _calculate_robustness_score([k \in 1..Len(selected_participants) |-> 0])))

(***************************************************************************)
(* _trim_and_average, trimmed_mean_aggregation                             *)
(***************************************************************************)
\* np.mean of the entries of weights_list at the indices listed
MeanAt(weights_list, indices) ==
    Rat(SeqSum([k \in 1..Len(indices) |-> weights_list[indices[k]]]), Len(indices))

\* the orders of the indices in S by ascending norm, equal norms in any order
RECURSIVE AscendingOrders(_, _)
AscendingOrders(S, norms) ==
    IF S = {} THEN {<<>>}
    ELSE LET least == {i \in S : \A j \in S : norms[i] <= norms[j]}
         IN  UNION {{<<i>> \o rest : rest \in AscendingOrders(S \ {i}, norms)} : i \in least}

\* np.argsort(norms): quicksort is not stable, so equal norms come in any order
ArgSorts(norms) == AscendingOrders(1..Len(norms), norms)

\* Python's s[k:-k] for k > 0
Trimmed(s, k) == SubSeq(s, k + 1, Len(s) - k)

\* _trim_and_average that trims one entry from each end when n_trim is 0
_trim_and_average_at_least_one(weights_list, n_trim) ==
    LET norms == [i \in 1..Len(weights_list) |-> Abs(weights_list[i])]
    IN  {MeanAt(weights_list, Trimmed(sorted_indices, Max(1, n_trim))) :
            sorted_indices \in ArgSorts(norms)}

\* the values _trim_and_average can return for one layer
_trim_and_average(weights_list, n_trim) ==
    IF n_trim = 0
    THEN {MeanAt(weights_list, [i \in 1..Len(weights_list) |-> i])}
    ELSE LET norms == [i \in 1..Len(weights_list) |-> Abs(weights_list[i])]
         IN  {MeanAt(weights_list, Trimmed(sorted_indices, n_trim)) :
                 sorted_indices \in ArgSorts(norms)}

\* trim_ratio is num / den; the set holds every outcome the call can have
trimmed_mean_aggregation(mu, num, den) ==
    IF Len(mu) < min_participants
    THEN {Raised("NotEnoughParticipants", min_participants)}
    ELSE LET n_trim == (Len(mu) * num) \div den
             layer_names == DOMAIN mu[1].update
             layer_weights == [l \in layer_names |-> [i \in 1..Len(mu) |-> mu[i].update[l]]]
         IN  {Returned(AggregationResult(w, "trimmed_mean", Keys(mu), <<>>, TrimmedScore)) :
                 w \in {w \in [layer_names -> UNION {_trim_and_average(layer_weights[l], n_trim) :
                                                        l \in layer_names}] :
                           \A l \in layer_names :
                               w[l] \in _trim_and_average(layer_weights[l], n_trim)}}

(***************************************************************************)
(* _detect_byzantine_participants                                          *)
(***************************************************************************)
\* 100 * np.percentile(values, q) (linear interpolation), values not empty
Percentile(values, q) ==
    LET a == Sorted(values)
        h == (Len(a) - 1) * q
        lo == h \div 100
        r == h % 100
    IN  IF r = 0 THEN 100 * a[lo + 1]
        ELSE 100 * a[lo + 1] + r * (a[lo + 2] - a[lo + 1])

\* the distances matrix: zero diagonal, _calculate_distance elsewhere
DistanceMatrix(mu) ==
    [i \in 1..Len(mu) |-> [j \in 1..Len(mu) |->
        IF i # j THEN _calculate_distance(mu[i].update, mu[j].update) ELSE 0]]

Flatten(matrix) ==
    LET n == Len(matrix)
    IN  [k \in 1..(n * n) |-> matrix[((k - 1) \div n) + 1][((k - 1) % n) + 1]]

\* DBSCAN.fit_predict(X) is given the matrix as n points of n features (metric
\* is left at its default, euclidean): squared distance between rows i and j
RowDistanceSq(X, i, j) ==
    SeqSum([k \in 1..Len(X) |-> (X[i][k] - X[j][k]) * (X[i][k] - X[j][k])])

\* indices labelled -1 by DBSCAN(eps, min_samples); eps100 is 100 * eps > 0
DBSCANNoise(X, eps100) ==
    LET pts == 1..Len(X)
        neighbours(i) == {j \in pts : 100 * 100 * RowDistanceSq(X, i, j) <= eps100 * eps100}
        core == {i \in pts : Cardinality(neighbours(i)) >= min_samples}
    IN  {i \in pts : i \notin core /\ neighbours(i) \cap core = {}}

\* the elements of a finite set of numbers as a list (np.percentile sorts its
\* argument, so the order in which a dict's values are listed is immaterial)
RECURSIVE Listed(_)
Listed(S) ==
    IF S = {} THEN <<>>
    ELSE LET x == CHOOSE y \in S : \A z \in S : y <= z
         IN  <<x>> \o Listed(S \ {x})

\* LowReputation with `rep <= low_reputation_threshold`
LowReputationInclusive(rep) ==
    IF DOMAIN rep = {} THEN {}
    ELSE LET ids == Listed(DOMAIN rep)
             low_reputation_threshold ==
                 Percentile([k \in 1..Len(ids) |-> rep[ids[k]]], RepPercentile)
         IN  {p \in DOMAIN rep : 100 * rep[p] <= low_reputation_threshold}

\* ids flagged by reputation; rep is a function from ids to tenths, empty for
\* None and for {} (`if participant_reputation:` treats the two alike)
LowReputation(rep) ==
    IF DOMAIN rep = {} THEN {}
    ELSE LET ids == Listed(DOMAIN rep)
             low_reputation_threshold ==
                 Percentile([k \in 1..Len(ids) |-> rep[ids[k]]], RepPercentile)
         IN  {p \in DOMAIN rep : 100 * rep[p] < low_reputation_threshold}

\* [raised |-> TRUE] when DBSCAN rejects eps = 0, else the set of flagged ids
_detect_byzantine_participants(mu, rep) ==
    IF Len(mu) < 3 THEN [raised |-> FALSE, flagged |-> {}]
    ELSE LET distances == DistanceMatrix(mu)
             eps100 == Percentile(Flatten(distances), EpsPercentile)
         IN  IF eps100 <= 0 THEN [raised |-> TRUE, flagged |-> {}]
             ELSE [raised |-> FALSE,
                   flagged |-> {mu[i].id : i \in DBSCANNoise(distances, eps100)}
                                   \cup LowReputation(rep)]

(***************************************************************************)
(* adaptive_byzantine_robust_aggregation                                   *)
(***************************************************************************)
\* ExtendExcluded that leaves the delegated algorithm's exclusions as they are
ExtendExcludedSkipped(o, byzantine_participants) == {o}

\* result.participants_excluded.extend(byzantine_participants): the list comes
\* from list(set(...)), so its order is any order
ExtendExcluded(o, byzantine_participants) ==
    IF o.kind # "returned" THEN {o}
    ELSE {[o EXCEPT !.result.participants_excluded = @ \o order] :
             order \in Orders(byzantine_participants)}

\* CleanUpdates that filters nobody out
CleanUpdatesUnfiltered(mu, byzantine_participants) == mu

\* {p: model_updates[p] for p in model_updates.keys() if p not in byzantine_participants}
CleanUpdates(mu, byzantine_participants) == Without(mu, byzantine_participants)

\* adaptive_byzantine_robust_aggregation without the fallback to the median of
\* the unfiltered round
adaptive_without_fallback(mu, rep) ==
    IF Len(mu) < min_participants
    THEN {Raised("NotEnoughParticipants", min_participants)}
    ELSE LET detected == _detect_byzantine_participants(mu, rep)
             byzantine_participants == detected.flagged
             clean_updates == CleanUpdates(mu, byzantine_participants)
             f == DefaultF(Len(mu))
         IN  IF detected.raised THEN {Raised("InvalidParameterError", 0)}
             ELSE IF Len(clean_updates) >= 4 * f + 3
             THEN ExtendExcluded(bulyan_aggregation(clean_updates, None), byzantine_participants)
             ELSE IF Len(clean_updates) >= 2 * f + 3
             THEN ExtendExcluded(krum_aggregation(clean_updates, None), byzantine_participants)
             ELSE ExtendExcluded(coordinate_wise_median(clean_updates), byzantine_participants)

\* the set holds every outcome the call can have
adaptive_byzantine_robust_aggregation(mu, rep) ==
    IF Len(mu) < min_participants
    THEN {Raised("NotEnoughParticipants", min_participants)}
    ELSE LET detected == _detect_byzantine_participants(mu, rep)
             byzantine_participants == detected.flagged
             clean_updates == CleanUpdates(mu, byzantine_participants)
             f == DefaultF(Len(mu))
         IN  IF detected.raised THEN {Raised("InvalidParameterError", 0)}
             ELSE IF Len(clean_updates) < min_participants
             THEN {coordinate_wise_median(mu)}
             ELSE IF Len(clean_updates) >= 4 * f + 3
             THEN ExtendExcluded(bulyan_aggregation(clean_updates, None), byzantine_participants)
             ELSE IF Len(clean_updates) >= 2 * f + 3
             THEN ExtendExcluded(krum_aggregation(clean_updates, None), byzantine_participants)
             ELSE ExtendExcluded(coordinate_wise_median(clean_updates), byzantine_participants)

(***************************************************************************)
(* _update_reputation                                                      *)
(***************************************************************************)
SetItem(rep, p, v) == [q \in DOMAIN rep \cup {p} |-> IF q = p THEN v ELSE rep[q]]

\* used_reputation without the cap at 1.0
used_reputation_uncapped(rep, p) ==
    IF p \notin DOMAIN rep THEN FirstUsed ELSE rep[p] + 1

used_reputation(rep, p) ==
    IF p \notin DOMAIN rep THEN FirstUsed ELSE Min(Tenths, rep[p] + 1)

\* excluded_reputation without the floor at 0.0
excluded_reputation_unfloored(rep, p) ==
    IF p \notin DOMAIN rep THEN FirstExcluded ELSE rep[p] - 1

\* excluded_reputation that gives a new participant the value of a used one
excluded_reputation_as_used(rep, p) ==
    IF p \notin DOMAIN rep THEN FirstUsed ELSE Max(0, rep[p] - 1)

excluded_reputation(rep, p) ==
    IF p \notin DOMAIN rep THEN FirstExcluded ELSE Max(0, rep[p] - 1)

RECURSIVE UpdateUsed(_, _)
UpdateUsed(rep, participants) ==
    IF participants = <<>> THEN rep
    ELSE UpdateUsed(SetItem(rep, Head(participants), used_reputation(rep, Head(participants))),
                    Tail(participants))

RECURSIVE UpdateExcluded(_, _)
UpdateExcluded(rep, participants) ==
    IF participants = <<>> THEN rep
    ELSE UpdateExcluded(SetItem(rep, Head(participants),
                                excluded_reputation(rep, Head(participants))),
                        Tail(participants))

\* _update_reputation that keeps the entries of the round's participants only
_update_reputation_of_round_only(rep, result) ==
    LET updated == UpdateExcluded(UpdateUsed(rep, result.participants_used),
                                  result.participants_excluded)
    IN  [p \in Range(result.participants_used) \cup Range(result.participants_excluded)
            |-> updated[p]]

_update_reputation(rep, result) ==
    UpdateExcluded(UpdateUsed(rep, result.participants_used), result.participants_excluded)

(***************************************************************************)
(* The calls a caller makes.                                               *)
(***************************************************************************)
Methods == {"fedavg", "krum", "bulyan", "coordinate_median", "trimmed_mean", "byzantine_robust"}

EmptyReputation == [p \in {} |-> 0]

Call(v, m, f_arg, num, den, rep) ==
    [via |-> v, method |-> m, f |-> f_arg, trim_num |-> num, trim_den |-> den,
     reputation |-> rep]

\* the participants 1..k submit, in ascending or in descending order of id
IdOrders == UNION {{[i \in 1..k |-> i], [i \in 1..k |-> k + 1 - i]} : k \in 0..NumParticipants}

InputsOver(orders, updates) ==
    UNION {{[i \in 1..Len(ids) |-> [id |-> ids[i], update |-> u[i]]] :
               u \in [1..Len(ids) -> updates]} : ids \in orders}

\* inputs of the calls made on the aggregator directly
AggInputs == InputsOver(IdOrders, Updates)

\* inputs of the rounds conducted through the coordinator:
\* the participants 1..k submit in ascending order of id; the last j of them
\* (at most MaxScaled) submit Scaled, the others Honest
RoundInputs ==
    {[i \in 1..k |-> [id |-> i, update |-> IF i > k - j THEN Scaled ELSE Honest]] :
        k \in 0..NumParticipants, j \in 0..MaxScaled}

\* the round of main(): MainNormal participants submit the same normal update,
\* the others submit malicious updates far from it and from each other
MainRound ==
    LET malicious == <<Shifted, Lifted, Scaled>>
    IN  [i \in 1..MainParticipants |->
            [id |-> i,
             update |-> IF i <= MainNormal THEN Honest ELSE malicious[i - MainNormal]]]

FArgs == {None} \cup 0..MaxF

\* reputation mappings passed to a direct adaptive or detector call: none,
\* every participant at 0.5, or one of them at 0.3 and the others at 0.5
ReputationArgs ==
    {EmptyReputation, [p \in ParticipantIds |-> FirstUsed]}
        \cup {[p \in ParticipantIds |-> IF p = x THEN FirstExcluded ELSE FirstUsed] :
                 x \in ParticipantIds}

\* trim_ratio values passed to a direct trimmed-mean call, as <<num, den>>
TrimRatios == {<<0, 1>>, <<TrimNum, TrimDen>>, <<1, 4>>, <<2, 5>>}

\* inputs of the trimmed-mean calls of SpecTrim: the participants 1..k in
\* ascending order, any corner of the rectangle each
TrimInputs ==
    InputsOver({[i \in 1..k |-> i] : k \in 0..NumParticipants}, Updates \cup {Lifted})

\* the values max_byzantine_ratio is constructed with
Ratios == {SmallRatio, DefaultRatio}

\* a reference to a mapping: to the coordinator's table itself, or to a mapping
\* of its own with the given items; NoMapping before any was handed out
Reference(ref, items) == [ref |-> ref, items |-> items]
NoMapping == Reference("none", EmptyReputation)

\* the items of the mapping that m refers to, when the table holds `table`
Mapping(m, table) == IF m.ref = "table" THEN table ELSE m.items

\* return self.participant_reputation
get_participant_reputation_uncopied == Reference("table", EmptyReputation)

\* return self.participant_reputation.copy()
get_participant_reputation == Reference("copy", participant_reputation)

\* no thread has a round in flight
NoThreads == <<>>

Init ==
    /\ max_byzantine_ratio \in Ratios
    /\ participant_reputation = EmptyReputation
    /\ aggregation_history = <<>>
    /\ model_updates = <<>>
    /\ call = Call("none", "none", None, TrimNum, TrimDen, EmptyReputation)
    /\ outcome = NotCalled
    /\ threads = NoThreads
    /\ returned_reputation = NoMapping

(***************************************************************************)
(* Calls on ByzantineRobustAggregator.  The initial state of SpecAgg holds *)
(* the arguments of one call; the action of the method called applies it.  *)
(* No coordinator state is touched.                                        *)
(***************************************************************************)
AggCalls ==
    {Call("aggregator", m, f, TrimNum, TrimDen, EmptyReputation) :
        m \in {"krum", "bulyan"}, f \in FArgs}
    \cup {Call("aggregator", "coordinate_median", None, TrimNum, TrimDen, EmptyReputation)}
    \cup {Call("aggregator", "trimmed_mean", None, t[1], t[2], EmptyReputation) :
             t \in TrimRatios}
    \cup {Call("aggregator", "byzantine_robust", None, TrimNum, TrimDen, rep) :
             rep \in ReputationArgs}

InitAgg ==
    /\ max_byzantine_ratio \in Ratios
    /\ participant_reputation = EmptyReputation
    /\ aggregation_history = <<>>
    /\ \/ model_updates \in AggInputs /\ call \in AggCalls
       \/ /\ model_updates = MainRound
          /\ call = Call("aggregator", "byzantine_robust", None, TrimNum, TrimDen,
                         EmptyReputation)
    /\ outcome = NotCalled
    /\ threads = NoThreads
    /\ returned_reputation = NoMapping

Pending(m) == call.via = "aggregator" /\ call.method = m /\ outcome.kind = "none"

Returns(o) ==
    /\ outcome' = o
    /\ UNCHANGED <<max_byzantine_ratio, returned_reputation, participant_reputation,
                   aggregation_history, model_updates, call, threads>>

KrumCall == Pending("krum") /\ Returns(krum_aggregation(model_updates, call.f))

BulyanCall == Pending("bulyan") /\ Returns(bulyan_aggregation(model_updates, call.f))

MedianCall == Pending("coordinate_median") /\ Returns(coordinate_wise_median(model_updates))

TrimmedMeanCall ==
    /\ Pending("trimmed_mean")
    /\ \E o \in trimmed_mean_aggregation(model_updates, call.trim_num, call.trim_den) :
           Returns(o)

AdaptiveCall ==
    /\ Pending("byzantine_robust")
    /\ \E o \in adaptive_byzantine_robust_aggregation(model_updates, call.reputation) :
           Returns(o)

NextAgg == KrumCall \/ BulyanCall \/ MedianCall \/ TrimmedMeanCall \/ AdaptiveCall

SpecAgg == InitAgg /\ [][NextAgg]_vars

(***************************************************************************)
(* Calls of trimmed_mean_aggregation over updates whose order by the norm  *)
(* of one layer differs from their order by the norm of the whole update.  *)
(***************************************************************************)
InitTrim ==
    /\ max_byzantine_ratio = DefaultRatio
    /\ participant_reputation = EmptyReputation
    /\ aggregation_history = <<>>
    /\ model_updates \in TrimInputs
    /\ call \in {Call("aggregator", "trimmed_mean", None, t[1], t[2], EmptyReputation) :
                    t \in TrimRatios}
    /\ outcome = NotCalled
    /\ threads = NoThreads
    /\ returned_reputation = NoMapping

NextTrim == TrimmedMeanCall

SpecTrim == InitTrim /\ [][NextTrim]_vars

(***************************************************************************)
(* Calls of _calculate_distance on two updates that need not have the same *)
(* layers: model_updates holds the two arguments.                          *)
(***************************************************************************)
\* the corners of the rectangle, each with any of its layers left out
PartialUpdates ==
    {[l \in present |-> u[l]] : u \in Updates \cup {Lifted}, present \in SUBSET Layers}

InitDistance ==
    /\ max_byzantine_ratio = DefaultRatio
    /\ participant_reputation = EmptyReputation
    /\ aggregation_history = <<>>
    /\ model_updates \in {<<[id |-> 1, update |-> model1], [id |-> 2, update |-> model2]>> :
                             model1 \in PartialUpdates, model2 \in PartialUpdates}
    /\ call = Call("aggregator", "distance", None, TrimNum, TrimDen, EmptyReputation)
    /\ outcome = NotCalled
    /\ threads = NoThreads
    /\ returned_reputation = NoMapping

DistanceCall ==
    /\ Pending("distance")
    /\ Returns(Distance(_calculate_distance(model_updates[1].update, model_updates[2].update)))

NextDistance == DistanceCall

SpecDistance == InitDistance /\ [][NextDistance]_vars

(***************************************************************************)
(* Calls of _detect_byzantine_participants alone, with any round, the      *)
(* rounds of fewer than 3 participants included.                           *)
(***************************************************************************)
DetectCalls ==
    {Call("aggregator", "detect", None, TrimNum, TrimDen, rep) : rep \in ReputationArgs}

InitDetect ==
    /\ max_byzantine_ratio \in Ratios
    /\ participant_reputation = EmptyReputation
    /\ aggregation_history = <<>>
    /\ model_updates \in AggInputs
    /\ call \in DetectCalls
    /\ outcome = NotCalled
    /\ threads = NoThreads
    /\ returned_reputation = NoMapping

\* list(set(byzantine_participants)) comes in any order
DetectCall ==
    /\ Pending("detect")
    /\ LET detected == _detect_byzantine_participants(model_updates, call.reputation)
       IN  IF detected.raised THEN Returns(Raised("InvalidParameterError", 0))
           ELSE \E order \in Orders(detected.flagged) : Returns(Flagged(order))

NextDetect == DetectCall

SpecDetect == InitDetect /\ [][NextDetect]_vars

(***************************************************************************)
(* ByzantineRobustFederatedLearning.conduct_robust_round                   *)
(***************************************************************************)
\* every outcome the dispatched aggregator call can have
Dispatch(mu, method, rep) ==
    IF method = "krum" THEN {krum_aggregation(mu, None)}
    ELSE IF method = "bulyan" THEN {bulyan_aggregation(mu, None)}
    ELSE IF method = "coordinate_median" THEN {coordinate_wise_median(mu)}
    ELSE IF method = "trimmed_mean" THEN trimmed_mean_aggregation(mu, TrimNum, TrimDen)
    ELSE IF method = "byzantine_robust" THEN adaptive_byzantine_robust_aggregation(mu, rep)
    ELSE {Raised("UnknownMethod", 0)}

\* conduct_robust_round that keeps the latest result only in the history
conduct_robust_round_keeping_latest(mu, method) ==
    \E o \in Dispatch(mu, method, participant_reputation) :
        /\ model_updates' = mu
        /\ call' = Call("coordinator", method, None, TrimNum, TrimDen, participant_reputation)
        /\ outcome' = o
        /\ UNCHANGED <<max_byzantine_ratio, returned_reputation, threads>>
        /\ IF o.kind = "returned"
           THEN /\ participant_reputation' = _update_reputation(participant_reputation, o.result)
                /\ aggregation_history' = <<o.result>>
           ELSE UNCHANGED <<participant_reputation, aggregation_history>>

\* conduct_robust_round that passes no reputation to the adaptive call
conduct_robust_round_without_reputation(mu, method) ==
    \E o \in Dispatch(mu, method, EmptyReputation) :
        /\ model_updates' = mu
        /\ call' = Call("coordinator", method, None, TrimNum, TrimDen, participant_reputation)
        /\ outcome' = o
        /\ UNCHANGED <<max_byzantine_ratio, returned_reputation, threads>>
        /\ IF o.kind = "returned"
           THEN /\ participant_reputation' = _update_reputation(participant_reputation, o.result)
                /\ aggregation_history' = Append(aggregation_history, o.result)
           ELSE UNCHANGED <<participant_reputation, aggregation_history>>

\* conduct_robust_round that records the round before the aggregator is done:
\* a failed call leaves an entry in the history
conduct_robust_round_recording_first(mu, method) ==
    \E o \in Dispatch(mu, method, participant_reputation) :
        /\ model_updates' = mu
        /\ call' = Call("coordinator", method, None, TrimNum, TrimDen, participant_reputation)
        /\ outcome' = o
        /\ UNCHANGED <<max_byzantine_ratio, returned_reputation, threads>>
        /\ participant_reputation' = _update_reputation(participant_reputation, o.result)
        /\ aggregation_history' = Append(aggregation_history, o.result)

conduct_robust_round(mu, method) ==
    \E o \in Dispatch(mu, method, participant_reputation) :
        /\ model_updates' = mu
        /\ call' = Call("coordinator", method, None, TrimNum, TrimDen, participant_reputation)
        /\ outcome' = o
        /\ UNCHANGED <<max_byzantine_ratio, returned_reputation, threads>>
        /\ IF o.kind = "returned"
           THEN /\ participant_reputation' = _update_reputation(participant_reputation, o.result)
                /\ aggregation_history' = Append(aggregation_history, o.result)
           ELSE UNCHANGED <<participant_reputation, aggregation_history>>

\* the caller chooses the first MaxRounds completed rounds freely and then
\* submits the updates of the latest round again, with the same method or (as
\* main() walks through the methods) with FEDAVG, which the coordinator does
\* not dispatch, up to MaxResubmit more completed rounds
ResubmittedRounds ==
    IF Len(aggregation_history) < MaxRounds
    THEN RoundInputs \X Methods
    ELSE IF Len(aggregation_history) < MaxRounds + MaxResubmit /\ call.via = "coordinator"
    THEN {<<model_updates, call.method>>, <<model_updates, "fedavg">>}
    ELSE {}

\* the caller chooses every round freely, up to MaxFreeRounds completed rounds
FreeRounds ==
    IF Len(aggregation_history) < MaxFreeRounds THEN RoundInputs \X Methods ELSE {}

Round(method, rounds) ==
    \E r \in rounds : r[2] = method /\ conduct_robust_round(r[1], method)

Next ==
    \/ Round("fedavg", ResubmittedRounds)
    \/ Round("krum", ResubmittedRounds)
    \/ Round("bulyan", ResubmittedRounds)
    \/ Round("coordinate_median", ResubmittedRounds)
    \/ Round("trimmed_mean", ResubmittedRounds)
    \/ Round("byzantine_robust", ResubmittedRounds)

Spec == Init /\ [][Next]_vars

NextRounds ==
    \/ Round("fedavg", FreeRounds)
    \/ Round("krum", FreeRounds)
    \/ Round("bulyan", FreeRounds)
    \/ Round("coordinate_median", FreeRounds)
    \/ Round("trimmed_mean", FreeRounds)
    \/ Round("byzantine_robust", FreeRounds)

SpecRounds == Init /\ [][NextRounds]_vars

(***************************************************************************)
(* Rounds of three or four participants, at most one of whom submits       *)
(* Scaled, with any method, and the statistics read after them.            *)
(***************************************************************************)
TableRounds ==
    IF Len(aggregation_history) < MaxTableRounds
    THEN {mu \in RoundInputs : /\ Len(mu) \in {min_participants, min_participants + 1}
                               /\ mu[Len(mu) - 1].update = Honest}
             \X Methods
    ELSE {}

NextTable ==
    \/ Round("fedavg", TableRounds)
    \/ Round("krum", TableRounds)
    \/ Round("bulyan", TableRounds)
    \/ Round("coordinate_median", TableRounds)
    \/ Round("trimmed_mean", TableRounds)
    \/ Round("byzantine_robust", TableRounds)

SpecTable == Init /\ [][NextTable]_vars

\* the dict get_aggregation_statistics returns when self.aggregation_history is
\* history: empty while no round has completed; the average score is a rational
\* <<num, den>> of hundredths (average_computation_time is left out: the model
\* has no clock)
get_aggregation_statistics(history) ==
    IF history = <<>> THEN [key \in {} |-> 0]
    ELSE LET methods_used == [i \in 1..Len(history) |-> history[i].method_used]
             robustness_scores == [i \in 1..Len(history) |-> history[i].robustness_score]
         IN  [total_rounds |-> Len(history),
              methods_used |-> methods_used,
              average_robustness_score |-> Rat(SeqSum(robustness_scores), Len(robustness_scores)),
              participant_reputation |-> Reference("table", EmptyReputation)]

(***************************************************************************)
(* Rounds of three or four participants, a call of                         *)
(* get_participant_reputation between them, and a caller that writes to    *)
(* the mapping it was handed.                                              *)
(***************************************************************************)
SnapshotRounds ==
    IF Len(aggregation_history) < MaxSnapshotRounds
    THEN {mu \in RoundInputs : Len(mu) \in {min_participants, min_participants + 1}}
             \X {"coordinate_median", "byzantine_robust"}
    ELSE {}

GetReputation ==
    /\ returned_reputation.ref = "none"
    /\ returned_reputation' = get_participant_reputation
    /\ UNCHANGED <<max_byzantine_ratio, participant_reputation, aggregation_history,
                   model_updates, call, outcome, threads>>

\* the caller's writes: reputation[1] = 0.0 and reputation.clear()
CallerWrites(items) == {SetItem(items, 1, 0), EmptyReputation}

\* a write through the reference lands in the mapping it refers to
CallerChange ==
    /\ returned_reputation.ref # "none"
    /\ \E items \in CallerWrites(Mapping(returned_reputation, participant_reputation)) :
           IF returned_reputation.ref = "table"
           THEN participant_reputation' = items /\ UNCHANGED returned_reputation
           ELSE /\ returned_reputation' = Reference("copy", items)
                /\ UNCHANGED participant_reputation
    /\ UNCHANGED <<max_byzantine_ratio, aggregation_history, model_updates, call, outcome,
                   threads>>

NextSnapshot ==
    \/ Round("coordinate_median", SnapshotRounds)
    \/ Round("byzantine_robust", SnapshotRounds)
    \/ GetReputation
    \/ CallerChange

SpecSnapshot == Init /\ [][NextSnapshot]_vars

(***************************************************************************)
(* Rounds conducted by several threads on one coordinator.  The coordinator *)
(* takes no lock, so the threads interleave between the reads and writes of *)
(* participant_reputation that _update_reputation makes for each            *)
(* participant: the membership test, the read of the old score, the store.  *)
(* The aggregator call of a round is one step (it reads the table once).    *)
(***************************************************************************)
Threads == 1..NumThreads

\* pc: "idle", "test", "load", "store", "append", "done" or "failed";
\* todo: the participants _update_reputation still has to visit, used ones first;
\* value: the score the thread is about to store
Thread(pc, result, todo, value) ==
    [pc |-> pc, result |-> result, todo |-> todo, value |-> value]

Visit(participants, is_used) ==
    [k \in 1..Len(participants) |-> [id |-> participants[k], used |-> is_used]]

\* rounds a thread conducts: at most MaxThreadRound participants
ThreadRounds == {mu \in RoundInputs : Len(mu) <= MaxThreadRound} \X Methods

InitThreads ==
    /\ max_byzantine_ratio \in Ratios
    /\ participant_reputation = EmptyReputation
    /\ aggregation_history = <<>>
    /\ model_updates = <<>>
    /\ call = Call("none", "none", None, TrimNum, TrimDen, EmptyReputation)
    /\ outcome = NotCalled
    /\ threads = [t \in Threads |-> Thread("idle", NoResult, <<>>, 0)]
    /\ returned_reputation = NoMapping

\* conduct_robust_round up to the return of the aggregator
ThreadBegin(t) ==
    /\ threads[t].pc = "idle"
    /\ \E r \in ThreadRounds : \E o \in Dispatch(r[1], r[2], participant_reputation) :
           /\ model_updates' = r[1]
           /\ call' = Call("thread", r[2], None, TrimNum, TrimDen, participant_reputation)
           /\ outcome' = o
           /\ threads' = [threads EXCEPT ![t] =
                  IF o.kind # "returned" THEN Thread("failed", NoResult, <<>>, 0)
                  ELSE LET todo == Visit(o.result.participants_used, TRUE)
                                       \o Visit(o.result.participants_excluded, FALSE)
                       IN  Thread(IF todo = <<>> THEN "append" ELSE "test", o.result, todo, 0)]
    /\ UNCHANGED <<max_byzantine_ratio, returned_reputation, participant_reputation, aggregation_history>>

ThreadSteps(t, next) ==
    /\ threads' = [threads EXCEPT ![t] = next]
    /\ UNCHANGED <<max_byzantine_ratio, returned_reputation, aggregation_history, model_updates, call, outcome>>

\* `if participant not in self.participant_reputation`
ThreadTest(t) ==
    LET th == threads[t]
        p == Head(th.todo)
    IN  /\ th.pc = "test"
        /\ UNCHANGED participant_reputation
        /\ IF p.id \in DOMAIN participant_reputation
           THEN ThreadSteps(t, [th EXCEPT !.pc = "load"])
           ELSE ThreadSteps(t, [th EXCEPT !.pc = "store",
                                          !.value = IF p.used THEN FirstUsed ELSE FirstExcluded])

\* the right-hand side min(1.0, self.participant_reputation[participant] + 0.1),
\* or max(0.0, ... - 0.1) for an excluded participant
ThreadLoad(t) ==
    LET th == threads[t]
        p == Head(th.todo)
    IN  /\ th.pc = "load"
        /\ UNCHANGED participant_reputation
        /\ ThreadSteps(t, [th EXCEPT !.pc = "store",
                                      !.value = IF p.used
                                                THEN used_reputation(participant_reputation, p.id)
                                                ELSE excluded_reputation(participant_reputation, p.id)])

\* self.participant_reputation[participant] = ...
ThreadStore(t) ==
    LET th == threads[t]
        p == Head(th.todo)
    IN  /\ th.pc = "store"
        /\ participant_reputation' = SetItem(participant_reputation, p.id, th.value)
        /\ ThreadSteps(t, [th EXCEPT !.pc = IF Tail(th.todo) = <<>> THEN "append" ELSE "test",
                                      !.todo = Tail(th.todo)])

\* self.aggregation_history.append(result)
ThreadAppend(t) ==
    /\ threads[t].pc = "append"
    /\ aggregation_history' = Append(aggregation_history, threads[t].result)
    /\ threads' = [threads EXCEPT ![t].pc = "done"]
    /\ UNCHANGED <<max_byzantine_ratio, returned_reputation, participant_reputation, model_updates, call, outcome>>

NextThreads ==
    \E t \in Threads :
        \/ ThreadBegin(t)
        \/ ThreadTest(t)
        \/ ThreadLoad(t)
        \/ ThreadStore(t)
        \/ ThreadAppend(t)

SpecThreads == InitThreads /\ [][NextThreads]_vars

(***************************************************************************)
(* Properties.                                                             *)
(***************************************************************************)
\* the latest call on the aggregator or through the coordinator has ended
Ended == outcome.kind # "none"
ReturnedBy(m) == outcome.kind = "returned" /\ call.method = m
N == Len(model_updates)
\* floor(n * max_byzantine_ratio) when f is omitted, else the f given
EffectiveF == IF call.f = None THEN (N * max_byzantine_ratio) \div 10 ELSE call.f
UsedIds == Range(outcome.result.participants_used)
ExcludedIds == Range(outcome.result.participants_excluded)
NoDuplicates(s) == \A i, j \in 1..Len(s) : s[i] = s[j] => i = j

\* sum of the k smallest distances from participant number i to the others:
\* the least sum over all sets of k other participants
SumOfSmallest(mu, i, k) ==
    LET others == 1..Len(mu) \ {i}
        d == [j \in others |-> _calculate_distance(mu[i].update, mu[j].update)]
        sums == {SumOver(T, d) : T \in {T \in SUBSET others : Cardinality(T) = k}}
    IN  CHOOSE x \in sums : \A y \in sums : x <= y

\* C1: Bulyan called with n >= 4f+3 participants returns a result with exactly
\* n-2f participants_used and 2f participants_excluded, whose weights are the
\* coordinate-wise median of the selected updates.
C1_BulyanSelectsAndAggregates ==
    (Ended /\ call.via = "aggregator" /\ call.method = "bulyan" /\ N >= 4 * EffectiveF + 3)
        => /\ outcome.kind = "returned"
           /\ Len(outcome.result.participants_used) = N - 2 * EffectiveF
           /\ Len(outcome.result.participants_excluded) = 2 * EffectiveF
           /\ outcome.result.aggregated_weights =
                  _coordinate_wise_median(
                      SelectSeq(model_updates, LAMBDA e : e.id \in UsedIds))

\* C2: for n >= 2f+3 every Krum score is the sum of the smallest n-f-2 of the
\* participant's n-1 distances to the others; Krum returns the one participant
\* of minimum score as participants_used, every other input participant as
\* participants_excluded, and the selected update itself as aggregated_weights.
C2_KrumScoreAndResult ==
    (Ended /\ call.via = "aggregator" /\ call.method = "krum" /\ N >= 2 * EffectiveF + 3)
        => /\ outcome.kind = "returned"
           /\ \A i \in 1..N :
                  KrumScores(model_updates, EffectiveF)[i]
                      = SumOfSmallest(model_updates, i, N - EffectiveF - 2)
           /\ \E i \in 1..N :
                  /\ outcome.result.participants_used = <<model_updates[i].id>>
                  /\ \A j \in 1..N :
                         SumOfSmallest(model_updates, i, N - EffectiveF - 2)
                             <= SumOfSmallest(model_updates, j, N - EffectiveF - 2)
                  /\ ExcludedIds = KeySet(model_updates) \ {model_updates[i].id}
                  /\ Len(outcome.result.participants_excluded) = N - 1
                  /\ \A l \in Layers :
                         outcome.result.aggregated_weights[l]
                             = <<model_updates[i].update[l], 1>>

\* a Krum call returned for five participants of which two submitted the same
\* update, and the scores are not all equal
C2_Witness ==
    /\ ReturnedBy("krum") /\ call.via = "aggregator" /\ N = 5 /\ EffectiveF = 1
    /\ \E i, j \in 1..N : i # j /\ model_updates[i].update = model_updates[j].update
    /\ \E i, j \in 1..N : SumOfSmallest(model_updates, i, 2) # SumOfSmallest(model_updates, j, 2)

\* C3: when several participants share the minimum Krum score, Krum selects
\* the one whose id comes first in the order of ids, whatever the order in
\* which the participants were supplied.
C3_KrumTieBreakById ==
    (ReturnedBy("krum") /\ call.via = "aggregator")
        => \A i \in 1..N :
               (\A j \in 1..N : SumOfSmallest(model_updates, i, N - EffectiveF - 2)
                                    <= SumOfSmallest(model_updates, j, N - EffectiveF - 2))
                   => outcome.result.participants_used[1] <= model_updates[i].id

\* C4: every method rejects a round that is too small with an
\* insufficient-participants error naming its threshold: Krum below 2f+3,
\* Bulyan below 4f+3, median, trimmed mean and adaptive below min_participants;
\* a round of zero participants fails this way in every method.
C4_TooSmallRoundRejected ==
    (Ended /\ call.via = "aggregator")
        => /\ (call.method = "krum" /\ N < 2 * EffectiveF + 3)
                  => outcome = Raised("NotEnoughParticipants", 2 * EffectiveF + 3)
           /\ (call.method = "bulyan" /\ N < 4 * EffectiveF + 3)
                  => outcome = Raised("NotEnoughParticipants", 4 * EffectiveF + 3)
           /\ (call.method \in {"coordinate_median", "trimmed_mean", "byzantine_robust"}
                   /\ N < min_participants)
                  => outcome = Raised("NotEnoughParticipants", min_participants)
           /\ N = 0 => (outcome.kind = "raised" /\ outcome.error = "NotEnoughParticipants")

\* Bulyan was called with five participants and f = 1 and failed naming 7
C4_Witness ==
    /\ call.via = "aggregator" /\ call.method = "bulyan" /\ N = 5 /\ call.f = 1
    /\ outcome = Raised("NotEnoughParticipants", 7)

\* C5: an adaptive call with at least min_participants participants returns
\* a result: neither the detector nor the delegated algorithm fails.
C5_AdaptiveReturns ==
    (Ended /\ call.via = "aggregator" /\ call.method = "byzantine_robust"
         /\ N >= min_participants)
        => outcome.kind = "returned"

\* C6: in every result of every round, every id in participants_used and in
\* participants_excluded is the id of a participant of that round.
C6_ResultIdsAreRoundParticipants ==
    (outcome.kind = "returned" /\ call.via = "coordinator")
        => (UsedIds \cup ExcludedIds) \subseteq KeySet(model_updates)

\* C7: in every result returned by any method no id is both in
\* participants_used and in participants_excluded, and no id is twice in
\* participants_excluded.
C7_UsedAndExcludedDisjoint ==
    outcome.kind = "returned"
        => /\ UsedIds \cap ExcludedIds = {}
           /\ NoDuplicates(outcome.result.participants_excluded)

\* an adaptive call that did not fall back returned a result that excludes
\* participants flagged by the detector, one of them by reputation
C7_Witness ==
    /\ ReturnedBy("byzantine_robust") /\ call.via = "aggregator"
    /\ Len(outcome.result.participants_excluded) >= 2
    /\ UsedIds # {}

\* the round that this step completes, and its result
RoundCompletes == Len(aggregation_history') = Len(aggregation_history) + 1
NewResult == outcome'.result

\* C8: a completed round sets the reputation of each participant in
\* participants_used to 0.5 if it had no entry and to min(1.0, s + 0.1) if
\* it had s, and of each participant in participants_excluded to 0.3 if it had
\* no entry and to max(0.0, s - 0.1) if it had s.
C8_ReputationUpdateRule ==
    [][RoundCompletes =>
          /\ \A k \in 1..Len(NewResult.participants_used) :
                 LET p == NewResult.participants_used[k]
                 IN  /\ p \in DOMAIN participant_reputation'
                     /\ participant_reputation'[p] =
                            IF p \notin DOMAIN participant_reputation THEN 5
                            ELSE IF participant_reputation[p] + 1 > 10 THEN 10
                            ELSE participant_reputation[p] + 1
          /\ \A k \in 1..Len(NewResult.participants_excluded) :
                 LET p == NewResult.participants_excluded[k]
                 IN  /\ p \in DOMAIN participant_reputation'
                     /\ participant_reputation'[p] =
                            IF p \notin DOMAIN participant_reputation THEN 3
                            ELSE IF participant_reputation[p] - 1 < 0 THEN 0
                            ELSE participant_reputation[p] - 1
      ]_vars

\* a round was completed that used a participant whose reputation was already 1.0
C8_Witness ==
    /\ outcome.kind = "returned" /\ call.via = "coordinator"
    /\ \E p \in UsedIds :
           /\ p \in DOMAIN call.reputation /\ call.reputation[p] = 10
           /\ participant_reputation[p] = 10

\* C9: every score in the reputation table lies in [0, 1].
C9_ReputationInUnitInterval ==
    \A p \in DOMAIN participant_reputation :
        participant_reputation[p] >= 0 /\ participant_reputation[p] <= 10

\* a round was completed that excluded a participant whose reputation was already 0.0
C9_Witness ==
    /\ outcome.kind = "returned" /\ call.via = "coordinator"
    /\ \E p \in ExcludedIds :
           /\ p \in DOMAIN call.reputation /\ call.reputation[p] = 0
           /\ participant_reputation[p] = 0

\* C10 as claimed: a participant with no entry that is excluded in a completed
\* round has reputation 0.5 after the round.
C10_NewExcludedGetsHalf ==
    (outcome.kind = "returned" /\ call.via = "coordinator")
        => \A p \in ExcludedIds :
               p \notin DOMAIN call.reputation => participant_reputation[p] = 5

\* C10 as amended: a participant with no entry that is excluded in a completed
\* round has reputation 0.3 after the round, and one that is used has 0.5.
C10_NewExcludedGetsThreeTenths ==
    (outcome.kind = "returned" /\ call.via = "coordinator")
        => /\ \A p \in ExcludedIds :
                  p \notin DOMAIN call.reputation => participant_reputation[p] = 3
           /\ \A p \in UsedIds :
                  p \notin DOMAIN call.reputation => participant_reputation[p] = 5

\* a completed round excluded a participant that had no entry and used another
C10_Witness ==
    /\ outcome.kind = "returned" /\ call.via = "coordinator"
    /\ \E p \in ExcludedIds : p \notin DOMAIN call.reputation
    /\ \E p \in UsedIds : p \notin DOMAIN call.reputation

\* C11: a round conducted through conduct_robust_round that fails (too few
\* participants for the method, unknown method, or any other exception of the
\* aggregator) leaves the reputation table and the aggregation history exactly
\* as they were before the call.
C11_FailedRoundChangesNothing ==
    [][outcome'.kind = "raised" =>
          /\ participant_reputation' = participant_reputation
          /\ aggregation_history' = aggregation_history
      ]_vars

\* a round failed on a coordinator that had completed a round before
C11_Witness ==
    /\ outcome.kind = "raised" /\ call.via = "coordinator"
    /\ aggregation_history # <<>>
    /\ DOMAIN participant_reputation # {}

\* the table after the reputation updates of the results listed, one whole
\* round at a time
RECURSIVE SerialUpdates(_, _)
SerialUpdates(rep, results) ==
    IF results = <<>> THEN rep
    ELSE SerialUpdates(_update_reputation(rep, Head(results)), Tail(results))

AllThreadsEnded == \A t \in Threads : threads[t].pc \in {"done", "failed"}
CompletedThreads == {t \in Threads : threads[t].pc = "done"}

\* C12: when rounds with overlapping participants have been conducted
\* concurrently on one coordinator, the reputation table equals the table
\* obtained by applying the reputation updates of the rounds one whole round at
\* a time in some serial order.
C12_ConcurrentRoundsSerialize ==
    (threads # NoThreads /\ AllThreadsEnded)
        => \E order \in Orders(CompletedThreads) :
               participant_reputation =
                   SerialUpdates(EmptyReputation,
                                 [k \in 1..Len(order) |-> threads[order[k]].result])

\* the latest call is an adaptive call made on the aggregator
AdaptiveEnded == Ended /\ call.via = "aggregator" /\ call.method = "byzantine_robust"
\* what the detector answers for the latest call, and the clean set it leaves
Detected == _detect_byzantine_participants(model_updates, call.reputation)
CleanOf(flagged) == SelectSeq(model_updates, LAMBDA e : e.id \notin flagged)
CleanSet == CleanOf(Detected.flagged)
\* the dispatch reaches the choice of a method: enough participants, the
\* detector answered (d), and enough of them are clean
NoFallbackWith(d, clean) ==
    /\ AdaptiveEnded /\ N >= min_participants
    /\ ~d.raised /\ Len(clean) >= min_participants
NoFallback == LET d == Detected IN NoFallbackWith(d, CleanOf(d.flagged))
\* floor(n_original * max_byzantine_ratio)
OriginalF == (N * max_byzantine_ratio) \div 10
ChosenMethod(clean) ==
    IF Len(clean) >= 4 * OriginalF + 3 THEN "bulyan"
    ELSE IF Len(clean) >= 2 * OriginalF + 3 THEN "krum"
    ELSE "coordinate_median"
\* the weights are those the method named computes from the clean set
FromCleanSet(result, clean) ==
    /\ Range(result.participants_used) \subseteq KeySet(clean)
    /\ result.participants_used # <<>>
    /\ result.aggregated_weights =
           IF result.method_used = "krum"
           THEN AsWeights(Item(clean, result.participants_used[1]))
           ELSE _coordinate_wise_median(
                    SelectSeq(clean, LAMBDA e : e.id \in Range(result.participants_used)))

\* C13: an adaptive dispatch that does not fall back chooses, with
\* f = floor(n_original * max_byzantine_ratio), Bulyan when clean_count >= 4f+3,
\* otherwise Krum when clean_count >= 2f+3, otherwise the median; it returns a
\* result whose method_used is the chosen method and whose weights are
\* computed from the clean set only.
C13_AdaptiveChoosesByThresholds ==
    AdaptiveEnded =>
        LET d == Detected
            clean == CleanOf(d.flagged)
        IN  NoFallbackWith(d, clean)
                => /\ outcome.kind = "returned"
                   /\ outcome.result.method_used = ChosenMethod(clean)
                   /\ FromCleanSet(outcome.result, clean)

\* C14: when the detector's exclusions leave fewer than min_participants clean
\* participants, the adaptive dispatcher returns the coordinate-wise median of
\* the unfiltered round: participants_used is every input participant, flagged
\* ones included, participants_excluded is empty and method_used is the median.
C14_FallbackIsMedianOfAll ==
    (AdaptiveEnded /\ N >= min_participants) =>
        LET d == Detected
        IN  (~d.raised /\ Len(CleanOf(d.flagged)) < min_participants)
                => /\ outcome.kind = "returned"
                   /\ outcome.result.method_used = "coordinate_median"
                   /\ outcome.result.participants_used = Keys(model_updates)
                   /\ outcome.result.participants_excluded = <<>>
                   /\ outcome.result.aggregated_weights
                          = _coordinate_wise_median(model_updates)

\* an adaptive call fell back: the detector flagged participants of the round,
\* whose updates differ from the others', and the result uses them
C14_Witness ==
    /\ AdaptiveEnded /\ N >= min_participants /\ outcome.kind = "returned"
    /\ LET d == Detected
       IN  /\ ~d.raised /\ Len(CleanOf(d.flagged)) < min_participants
           /\ d.flagged \cap KeySet(model_updates) # {}
           /\ d.flagged \cap UsedIds # {}
    /\ \E i, j \in 1..N : model_updates[i].update # model_updates[j].update

\* the round of main() was aggregated adaptively with the default ratio and
\* the detector flagged (as the set flagged) exactly the malicious participants
MainScenario(flagged) ==
    /\ AdaptiveEnded /\ model_updates = MainRound /\ max_byzantine_ratio = 3
    /\ flagged = (MainNormal + 1)..MainParticipants

C16_DetectorNeverFails ==
    (Ended /\ call.method = "detect")
        => /\ outcome.kind = "flagged"
           /\ N < 3 => outcome.result.participants_excluded = <<>>

\* the latest call is a trimmed-mean call on the aggregator that returned
TrimmedMeanReturned == ReturnedBy("trimmed_mean") /\ call.via = "aggregator"
\* k = floor(n * trim_ratio)
TrimCount == (N * call.trim_num) \div call.trim_den
\* the norm of the whole update of participant number i
UpdateNorm(i) == Sqrt(SumOver(Layers, [l \in Layers |-> model_updates[i].update[l] * model_updates[i].update[l]]))
\* the mean of layer l over the participants numbered in kept
LayerMean(l, kept) == Rat(SumOver(kept, [i \in kept |-> model_updates[i].update[l]]), Cardinality(kept))

\* C17: trimmed_mean_aggregation with k = floor(n * trim_ratio) > 0 ranks the
\* participants once by the norm of their whole update and drops, in every
\* layer, the same k lowest-ranked and the same k highest-ranked participants
\* before averaging the remaining n-2k: the participants whose values enter the
\* average are the same for all layers.
C17_TrimByWholeUpdateNorm ==
    (TrimmedMeanReturned /\ TrimCount > 0 /\ N > 2 * TrimCount)
        => \E ranking \in ArgSorts([i \in 1..N |-> UpdateNorm(i)]) :
               LET kept == Range(Trimmed(ranking, TrimCount))
               IN  \A l \in Layers : outcome.result.aggregated_weights[l] = LayerMean(l, kept)

\* C18: trimmed_mean_aggregation with floor(n * trim_ratio) = 0 (trim_ratio 0
\* in particular) over n >= min_participants updates returns, for every layer,
\* the arithmetic mean of all n participants' tensors of that layer.
C18_NoTrimIsMean ==
    (Ended /\ call.via = "aggregator" /\ call.method = "trimmed_mean"
         /\ N >= min_participants /\ TrimCount = 0)
        => /\ outcome.kind = "returned"
           /\ \A l \in Layers : outcome.result.aggregated_weights[l] = LayerMean(l, 1..N)

\* a trimmed-mean call with trim_ratio 0 returned a mean that is not the value
\* of any participant
C18_Witness ==
    /\ TrimmedMeanReturned /\ call.trim_num = 0 /\ N >= min_participants
    /\ \E l \in Layers : \A i \in 1..N :
           outcome.result.aggregated_weights[l] # <<model_updates[i].update[l], 1>>

\* the latest call is a coordinate_wise_median call on the aggregator over at
\* least min_participants participants
MedianEnded ==
    /\ Ended /\ call.via = "aggregator" /\ call.method = "coordinate_median"
    /\ N >= min_participants

\* C19: coordinate_wise_median over k identical updates returns exactly that
\* update, every layer unchanged, for every k >= min_participants, odd or even.
C19_MedianOfIdenticalUpdates ==
    (MedianEnded /\ \A i \in 1..N : model_updates[i].update = model_updates[1].update)
        => /\ outcome.kind = "returned"
           /\ \A l \in Layers :
                  outcome.result.aggregated_weights[l] = <<model_updates[1].update[l], 1>>

\* the median of an even number of identical updates that are not zero returned
C19_Witness ==
    /\ MedianEnded /\ outcome.kind = "returned" /\ N % 2 = 0
    /\ \A i \in 1..N : model_updates[i].update = Scaled

\* the k-th smallest of the values of layer l over all participants
LayerOrderStatistic(l, k) ==
    LET v == [i \in 1..N |-> model_updates[i].update[l]]
    IN  CHOOSE x \in Range(v) :
            /\ Cardinality({i \in 1..N : v[i] < x}) < k
            /\ Cardinality({i \in 1..N : v[i] <= x}) >= k

\* C20: coordinate_wise_median over n >= min_participants updates returns, for
\* each layer, the median of the layer's values over all n participants (the
\* mean of the two middle values when n is even), with participants_used all
\* input participants, participants_excluded empty and robustness_score 0.8.
C20_MedianResult ==
    MedianEnded
        => /\ outcome.kind = "returned"
           /\ \A l \in Layers :
                  LET lower == LayerOrderStatistic(l, (N + 1) \div 2)
                      upper == LayerOrderStatistic(l, (N \div 2) + 1)
                      w == outcome.result.aggregated_weights[l]
                  IN  /\ w[2] \in {1, 2}
                      /\ 2 * w[1] = w[2] * (lower + upper)
           /\ outcome.result.participants_used = [i \in 1..N |-> model_updates[i].id]
           /\ outcome.result.participants_excluded = <<>>
           /\ outcome.result.robustness_score = 80

\* the median of an even number of updates returned a value halfway between
\* two different middle values
C20_Witness ==
    /\ MedianEnded /\ outcome.kind = "returned" /\ N % 2 = 0
    /\ \E l \in Layers : outcome.result.aggregated_weights[l][2] = 2

\* the latest call is a round conducted through the coordinator that has ended
RoundEnded == Ended /\ call.via = "coordinator"

\* C21: conduct_robust_round fails with an unknown-method failure only when
\* the requested method is not one of the six variants FedAvg, Krum, Bulyan,
\* CoordinateMedian, TrimmedMean, AdaptiveRobust; a request naming any of the
\* six is dispatched to an aggregation algorithm.
C21_SixVariantsDispatched ==
    (RoundEnded /\ call.method \in Methods)
        => ~(outcome.kind = "raised" /\ outcome.error = "UnknownMethod")

\* the Krum scores of the latest call, each as the least sum over n-f-2 others
ScoresOfKrum == [i \in 1..N |-> SumOfSmallest(model_updates, i, N - EffectiveF - 2)]
\* n * sum(x^2) - sum(x)^2 over the scores: (n * population_std)^2
ScoreSpread(scores) ==
    Len(scores) * SeqSum([i \in 1..Len(scores) |-> scores[i] * scores[i]])
        - SeqSum(scores) * SeqSum(scores)

\* C22: the robustness_score of every result returned by any method lies in
\* [0, 1]; for Krum it is 1.0 when all Krum scores are equal, 0 when their mean
\* is 0, and otherwise max(0, 1 - population_std(scores) / mean(scores)), here
\* in hundredths rounded up: with cv = std/mean = sqrt(spread)/sum, the score s
\* is 0 when cv >= 1 and otherwise 1 - s <= cv < 1 - (s - 1).
C22_RobustnessScore ==
    /\ outcome.kind = "returned"
           => outcome.result.robustness_score \in 0..100
    /\ (ReturnedBy("krum") /\ call.via = "aggregator")
           => LET scores == ScoresOfKrum
                  total == SeqSum(scores)
                  spread == ScoreSpread(scores)
                  s == outcome.result.robustness_score
              IN  IF \A i, j \in 1..N : scores[i] = scores[j] THEN s = 100
                  ELSE IF total = 0 THEN s = 0
                  ELSE IF spread >= total * total THEN s = 0
                  ELSE /\ s \in 1..100
                       /\ ((100 - s) * total) * ((100 - s) * total) <= 100 * 100 * spread
                       /\ 100 * 100 * spread < ((101 - s) * total) * ((101 - s) * total)

\* Krum returned, its scores differ, and the robustness score is strictly
\* between 0 and 1
C22_Witness ==
    /\ ReturnedBy("krum") /\ call.via = "aggregator"
    /\ \E i, j \in 1..N : ScoresOfKrum[i] # ScoresOfKrum[j]
    /\ outcome.result.robustness_score \in 1..99

\* the latest call is _calculate_distance(Model1, Model2) and has returned
DistanceReturned == call.method = "distance" /\ outcome.kind = "distance"
Model1 == model_updates[1].update
Model2 == model_updates[2].update

\* C23: the distance between two updates is symmetric, is zero for an update
\* compared with itself, and counts only the layers present in both updates: a
\* layer present in only one of them contributes nothing and causes no error.
C23_DistanceSymmetricOverSharedLayers ==
    (call.method = "distance" /\ Ended)
        => /\ outcome.kind = "distance"
           /\ outcome.value = _calculate_distance(Model2, Model1)
           /\ Model1 = Model2 => outcome.value = 0
           /\ LET both == DOMAIN Model1 \cap DOMAIN Model2
                  square == [l \in both |-> (Model2[l] - Model1[l]) * (Model2[l] - Model1[l])]
              IN  outcome.value * outcome.value = SumOver(both, square)

\* the distance was taken between two updates that differ in a shared layer,
\* one of which has a non-zero layer the other lacks
C23_Witness ==
    /\ DistanceReturned /\ outcome.value > 0
    /\ \E l \in DOMAIN Model1 \ DOMAIN Model2 : Model1[l] # 0
    /\ \E l \in DOMAIN Model1 \cap DOMAIN Model2 : Model1[l] # Model2[l]

\* a mapping was handed out and is held by the caller
Held == returned_reputation.ref # "none"
HeldItems == Mapping(returned_reputation, participant_reputation)

\* C24: the mapping returned by get_participant_reputation is a snapshot copy
\* of the reputation table: it holds the table's entries when it is returned,
\* a change the caller makes to it never changes the table, and a round
\* completed after the call never changes it.
C24_ReturnedReputationIsSnapshot ==
    [][/\ (~Held /\ Held')
          => /\ HeldItems' = participant_reputation
             /\ participant_reputation' = participant_reputation
       /\ (Held /\ aggregation_history' # aggregation_history)
          => HeldItems' = HeldItems
       /\ (Held /\ aggregation_history' = aggregation_history)
          => participant_reputation' = participant_reputation]_vars

\* the caller holds a mapping returned after the first round, has set the
\* entry of participant 1 in it to 0, and a second round has raised the table's
\* entries since
C24_Witness ==
    /\ Held /\ Len(aggregation_history) = 2
    /\ 1 \in DOMAIN HeldItems /\ HeldItems[1] = 0
    /\ 1 \in DOMAIN participant_reputation /\ participant_reputation[1] = FirstUsed + 1
    /\ \E p \in DOMAIN HeldItems \cap DOMAIN participant_reputation :
           HeldItems[p] = FirstUsed /\ participant_reputation[p] = FirstUsed + 1

\* the latest call is _detect_byzantine_participants and has ended
DetectEnded == call.method = "detect" /\ Ended

\* the ids of the participants that have fewer than min_samples participants,
\* themselves included, within eps of them by the entries of the distance matrix
MatrixNoise(mu) ==
    LET distances == DistanceMatrix(mu)
        eps100 == Percentile(Flatten(distances), EpsPercentile)
        within(i) == {j \in 1..Len(mu) : 100 * distances[i][j] <= eps100}
    IN  {mu[i].id : i \in {k \in 1..Len(mu) : Cardinality(within(k)) < min_samples}}

\* C25: the detector flags a participant by clustering exactly when that
\* participant is noise in the pairwise distance matrix: fewer than 2
\* participants (counting itself) lie within distance epsilon of it, epsilon
\* being the 75th percentile of all n*n entries of the matrix. (No reputation
\* is passed, so every flagged id is flagged by clustering.)
C25_ClusteringFlagsMatrixNoise ==
    (DetectEnded /\ outcome.kind = "flagged" /\ call.reputation = EmptyReputation
        /\ N >= 3)
        => Range(outcome.result.participants_excluded) = MatrixNoise(model_updates)

\* the ids the same round is flagged with when no reputation is supplied
ClusteringFlagged == _detect_byzantine_participants(model_updates, EmptyReputation).flagged

\* the ids whose supplied reputation is strictly below the 20th percentile of
\* all supplied reputation values
BelowPercentile(rep) ==
    LET ids == Listed(DOMAIN rep)
        values == [k \in 1..Len(ids) |-> rep[ids[k]]]
    IN  {p \in DOMAIN rep : 100 * rep[p] < Percentile(values, RepPercentile)}

\* the detector returned a list and a non-empty reputation mapping was supplied
FlaggedWithReputation ==
    DetectEnded /\ outcome.kind = "flagged" /\ call.reputation # EmptyReputation

FlagsUnion ==
    /\ Range(outcome.result.participants_excluded)
           = ClusteringFlagged \cup BelowPercentile(call.reputation)
    /\ NoDuplicates(outcome.result.participants_excluded)
    /\ (\A p, q \in DOMAIN call.reputation : call.reputation[p] = call.reputation[q])
           => Range(outcome.result.participants_excluded) = ClusteringFlagged

RoundStepOf(m) ==
    /\ <<model_updates, call, outcome, aggregation_history>>'
           # <<model_updates, call, outcome, aggregation_history>>
    /\ call'.via = "coordinator" /\ call'.method = m

\* C27: in every adaptive round conducted through conduct_robust_round, the
\* reputation values the detector reads are the table as it stood when the
\* round started (after the updates of all previously completed rounds, before
\* this round's own), and the round's reputation update is applied to that
\* table only after the aggregation result has been computed.
C27_DetectorReadsTableBeforeUpdate ==
    [][RoundStepOf("byzantine_robust")
          => /\ outcome' \in adaptive_byzantine_robust_aggregation(model_updates',
                                                                   participant_reputation)
             /\ IF outcome'.kind = "returned"
                THEN participant_reputation'
                         = _update_reputation(participant_reputation, outcome'.result)
                ELSE participant_reputation' = participant_reputation]_vars

\* an adaptive round has completed in which a participant that clustering did
\* not flag was excluded for its reputation in the table of the earlier rounds,
\* and the round's own update has lowered that reputation since
C27_Witness ==
    /\ RoundEnded /\ ReturnedBy("byzantine_robust")
    /\ \E p \in ExcludedIds \ ClusteringFlagged :
           /\ p \in BelowPercentile(call.reputation)
           /\ participant_reputation[p] = call.reputation[p] - 1

\* the step is a round conducted through conduct_robust_round
RoundStep ==
    /\ <<model_updates, call, outcome, aggregation_history>>'
           # <<model_updates, call, outcome, aggregation_history>>
    /\ call'.via = "coordinator"

\* C28: a round conducted through conduct_robust_round changes the reputation
\* only of participants who submitted an update in that round; the score of
\* every participant absent from the round is the same after it as before.
C28_AbsentParticipantsKeepReputation ==
    [][RoundStep
          => \A p \in DOMAIN participant_reputation \ KeySet(model_updates') :
                 /\ p \in DOMAIN participant_reputation'
                 /\ participant_reputation'[p] = participant_reputation[p]]_vars

\* C29: once a participant has an entry in the reputation table it has an
\* entry after every later operation, whatever methods and participant sets
\* the later rounds have and whether they succeed or fail: entries are never
\* removed and never reset to a first-sight default (an entry moves by one
\* tenth at most, upwards only if the round used the participant, downwards
\* only if the round excluded it).
C29_EntriesStay ==
    [][\A p \in DOMAIN participant_reputation :
           /\ p \in DOMAIN participant_reputation'
           /\ participant_reputation'[p] - participant_reputation[p] \in {-1, 0, 1}
           /\ participant_reputation'[p] > participant_reputation[p]
                  => (outcome'.kind = "returned" /\ p \in Range(outcome'.result.participants_used))
           /\ participant_reputation'[p] < participant_reputation[p]
                  => (outcome'.kind = "returned"
                          /\ p \in Range(outcome'.result.participants_excluded))]_vars

\* a round of three participants has completed after a round of four, and a
\* round has failed since: the fourth participant still has its entry
C29_Witness ==
    /\ RoundEnded /\ outcome.kind = "raised"
    /\ Len(aggregation_history) = 2
    /\ Len(aggregation_history[2].participants_used)
           + Len(aggregation_history[2].participants_excluded) = 3
    /\ 4 \in DOMAIN participant_reputation

\* total_rounds as get_aggregation_statistics reports it, 0 when the returned
\* dict has no such key
TotalRounds(statistics) ==
    IF "total_rounds" \in DOMAIN statistics THEN statistics.total_rounds ELSE 0

\* C30: every round that completes through conduct_robust_round appends
\* exactly one AggregationResult (the one returned to the caller) to the end of
\* the aggregation history, together with that round's reputation update;
\* existing history entries are never removed or reordered, and total_rounds
\* reported by get_aggregation_statistics counts the completed rounds.
C30_OneResultAppendedPerRound ==
    [][LET before == TotalRounds(get_aggregation_statistics(aggregation_history))
           statistics == get_aggregation_statistics(aggregation_history')
       IN  IF RoundStep /\ outcome'.kind = "returned"
           THEN /\ aggregation_history' = Append(aggregation_history, outcome'.result)
                /\ participant_reputation'
                       = _update_reputation(participant_reputation, outcome'.result)
                /\ "total_rounds" \in DOMAIN statistics
                /\ statistics.total_rounds = before + 1
           ELSE /\ aggregation_history' = aggregation_history
                /\ TotalRounds(statistics) = before]_vars

\* two rounds have completed with different results, the second of which is
\* the latest entry of the history, and the statistics report two rounds
C30_Witness ==
    /\ RoundEnded /\ outcome.kind = "returned"
    /\ Len(aggregation_history) = 2
    /\ aggregation_history[2] = outcome.result
    /\ aggregation_history[1] # aggregation_history[2]
    /\ get_aggregation_statistics(aggregation_history).total_rounds = 2
====
